---- MODULE Spec2Model ----
(***************************************************************************)
(* Model of src/core.rs: the Core engine of the serial link driver.        *)
(*                                                                         *)
(* Core::new builds the parser and the two channels; Core::start creates   *)
(* the send-credit counter serial_write_lock = Mutex(buffer_size) with its *)
(* Condvar and spawns two tasks: the reader task of process_input and the  *)
(* writer task of process_output.  Callers use write, read, reset_parser   *)
(* and finally drop their Core handles.                                    *)
(*                                                                         *)
(* Every await point of the two tasks is a program counter value (ipc for  *)
(* the reader task, opc for the writer task); the code between two await   *)
(* points is one action.  A critical section of the counter's mutex holds  *)
(* no await, so it is one action.                                          *)
(***************************************************************************)
EXTENDS Integers, Sequences, FiniteSets, TLC

(***************************************************************************)
(* Bounds of the model.                                                    *)
(***************************************************************************)
\* largest buffer_size handed to start
MaxBufferSize == 2
\* packets the callers submit with write (they are numbered 1..MaxFrames)
MaxFrames == 2
\* bytes the serial link delivers in the flow-control specification Spec
MaxBytes == 3
\* bytes the serial link delivers in the decoding specification SpecCodec
MaxCodecBytes == 6
\* largest number of bytes one serial.read returns
MaxChunk == 2
\* hard (non-timeout) errors serial.write returns in all
MaxHardErrors == 1
\* timeouts of serial.write counted for one packet (more are not counted)
MaxTimeouts == 1
\* calls of reset_parser
MaxResets == 1
\* capacity of the msp_reader channel in the model (4096 in Core::new)
ReaderCap == 1
\* capacity of the msp_writer channel in the model (1024 in Core::new)
WriterCap == 2

VARIABLES
    buffer_size,          \* the buffer_size argument of start
    serial_write_lock,    \* the usize inside the Mutex: the send credit
    ipc,                  \* reader task: where it stands in process_input
    initial_buffer_size,  \* reader task: the ceiling it read at its start
    serial_buf,           \* reader task: the bytes of the current read
    n,                    \* reader task: index of the next byte to parse
    parser,               \* the MspParser behind parser_locked
    parser_owner,         \* holder of the parser_locked mutex
    p,                    \* reader task: packet decoded, not yet sent on
    msp_reader,           \* channel of decoded packets (reader task -> read)
    opc,                  \* writer task: where it stands in process_output
    packet,               \* writer task: the packet it is writing
    msp_writer,           \* channel of submitted packets (write -> writer task)
    wire,                 \* buffers serial.write accepted, in order
    alive,                \* some Core handle still exists
    rx_left,              \* bytes the serial link has yet to deliver
    submitted,            \* number of packets handed to write so far
    hard_errs,            \* hard errors serial.write returned so far
    timeouts,             \* timeouts serial.write returned for this packet
    delivered,            \* what read() returned, in order: packets (and
                          \* NoValue for None)
    ref,                  \* the codec run on all bytes read (and reset with
                          \* the parser): its state, packets and errors
    bad_crc,              \* number of "bad crc" lines the reader task logged
    resets,               \* number of reset_parser calls so far
    reset_dropped,        \* the parser state the last reset_parser dropped
    fed_since,            \* bytes parsed since the last reset (up to FrameLen)
    early_decode,         \* an inbound packet was decoded before F1 and F2
                          \* had both been submitted
    split_fail            \* a read timed out or failed between the bytes of
                          \* the frame the parser holds or has just decoded

vars == << buffer_size, serial_write_lock, ipc, initial_buffer_size, serial_buf,
           n, parser, parser_owner, p, msp_reader, opc, packet, msp_writer,
           wire, alive, rx_left, submitted, hard_errs, timeouts, delivered,
           ref, bad_crc, resets, reset_dropped, fed_since, early_decode,
           split_fail >>

inVars == << ipc, initial_buffer_size, serial_buf, n, parser, parser_owner, p,
             rx_left, ref, bad_crc, fed_since, early_decode, split_fail >>
outVars == << opc, packet, wire, hard_errs, timeouts >>
resetVars == << resets, reset_dropped >>

(***************************************************************************)
(* The frame codec (crate multiwii_serial_protocol_v2), reduced to a       *)
(* three byte frame: header, id, checksum of the id.                       *)
(***************************************************************************)
Bytes == 0 .. 1
HDR == 1
FrameLen == 3
Crc8(b) == (b + 1) % 2

NewParser == [state |-> "Header1", id |-> 0]

\* MspParser::parse: one byte in; a packet, a checksum error or nothing out
Parse(ps, b) ==
    CASE ps.state = "Header1" ->
            IF b = HDR
            THEN [parser |-> [state |-> "Id", id |-> 0], kind |-> "none", packet |-> 0]
            ELSE [parser |-> NewParser, kind |-> "none", packet |-> 0]
      [] ps.state = "Id" ->
            [parser |-> [state |-> "Crc", id |-> b], kind |-> "none", packet |-> 0]
      [] ps.state = "Crc" ->
            IF b = Crc8(ps.id)
            THEN [parser |-> NewParser, kind |-> "packet", packet |-> ps.id]
            ELSE [parser |-> NewParser, kind |-> "err", packet |-> 0]

\* bytes of a frame the parser holds
Held(ps) == CASE ps.state = "Header1" -> 0 [] ps.state = "Id" -> 1 [] ps.state = "Crc" -> 2

\* MspPacket::serialize_v2
Serialize(pkt) == << HDR, pkt, Crc8(pkt) >>

\* the codec run over a whole byte sequence, from the state r
RECURSIVE Decode(_, _)
Decode(r, bs) ==
    IF bs = << >> THEN r
    ELSE LET res == Parse(r.parser, Head(bs))
         IN Decode([parser |-> res.parser,
                    frames |-> IF res.kind = "packet"
                               THEN Append(r.frames, res.packet) ELSE r.frames,
                    errs   |-> IF res.kind = "err" THEN r.errs + 1 ELSE r.errs],
                   Tail(bs))

ByteSeqs(k) == UNION { [1 .. m -> Bytes] : m \in 0 .. k }

Min(a, b) == IF a < b THEN a ELSE b

(***************************************************************************)
(* Core::new followed by Core::start.                                      *)
(***************************************************************************)
InitCore(budget) ==
    /\ buffer_size \in 0 .. MaxBufferSize
    /\ serial_write_lock = buffer_size
    /\ ipc = "start"
    /\ initial_buffer_size = 0
    /\ serial_buf = << >>
    /\ n = 1
    /\ parser = NewParser
    /\ parser_owner = "free"
    /\ p = 0
    /\ msp_reader = << >>
    /\ opc = "acquire"
    /\ packet = 0
    /\ msp_writer = << >>
    /\ wire = << >>
    /\ alive = TRUE
    /\ rx_left = budget
    /\ submitted = 0
    /\ hard_errs = 0
    /\ timeouts = 0
    /\ delivered = << >>
    /\ ref = [parser |-> NewParser, frames |-> << >>, errs |-> 0]
    /\ bad_crc = 0
    /\ resets = 0
    /\ reset_dropped = NewParser
    /\ fed_since = 0
    /\ early_decode = FALSE
    /\ split_fail = FALSE

Init == InitCore(MaxBytes)

(***************************************************************************)
(* The reader task of process_input.                                       *)
(***************************************************************************)
\* the task's first lines: remember the counter's value as the ceiling
ReaderStart ==
    /\ ipc = "start"
    /\ initial_buffer_size' = serial_write_lock
    /\ ipc' = "read"
    /\ UNCHANGED << buffer_size, serial_write_lock, serial_buf, n, parser,
                    parser_owner, p, msp_reader, rx_left, ref, bad_crc,
                    fed_since, early_decode, split_fail, alive, submitted, delivered, msp_writer >>
    /\ UNCHANGED outVars /\ UNCHANGED resetVars

\* ReadOk as it would be were the parser state not kept from one read to the
\* next
ReadOk_NewParserPerRead(chunk) ==
    /\ ipc = "read"
    /\ parser_owner = "free"
    /\ Len(chunk) <= rx_left
    /\ rx_left' = rx_left - Len(chunk)
    /\ serial_buf' = chunk
    /\ n' = 1
    /\ ref' = Decode(ref, chunk)
    /\ parser' = NewParser
    /\ IF chunk = << >>
       THEN ipc' = "yield" /\ parser_owner' = "free"
       ELSE ipc' = "parse" /\ parser_owner' = "reader"
    /\ UNCHANGED << buffer_size, serial_write_lock, initial_buffer_size, p,
                    msp_reader, bad_crc, fed_since, early_decode, split_fail, alive, submitted, delivered,
                    msp_writer >>
    /\ UNCHANGED outVars /\ UNCHANGED resetVars

\* serial.read returns Ok(bytes); the task takes the parser lock
ReadOk(chunk) ==
    /\ ipc = "read"
    /\ parser_owner = "free"
    /\ Len(chunk) <= rx_left
    /\ rx_left' = rx_left - Len(chunk)
    /\ serial_buf' = chunk
    /\ n' = 1
    /\ ref' = Decode(ref, chunk)
    /\ IF chunk = << >>
       THEN ipc' = "yield" /\ parser_owner' = "free"
       ELSE ipc' = "parse" /\ parser_owner' = "reader"
    /\ UNCHANGED << buffer_size, serial_write_lock, initial_buffer_size, parser, p,
                    msp_reader, bad_crc, fed_since, early_decode, split_fail, alive, submitted, delivered,
                    msp_writer >>
    /\ UNCHANGED outVars /\ UNCHANGED resetVars

\* ReadTimedOut as it would be were a timeout to drop the partial frame
ReadTimedOut_DropsPartial ==
    /\ ipc = "read"
    /\ ipc' = "timed_out"
    /\ parser' = NewParser
    /\ split_fail' = (split_fail \/ Held(parser) > 0)
    /\ UNCHANGED << buffer_size, serial_write_lock, initial_buffer_size, serial_buf,
                    n, parser_owner, p, msp_reader, rx_left, ref, bad_crc,
                    fed_since, early_decode, alive, submitted, delivered, msp_writer >>
    /\ UNCHANGED outVars /\ UNCHANGED resetVars

\* serial.read returns Err(TimedOut)
ReadTimedOut ==
    /\ ipc = "read"
    /\ ipc' = "timed_out"
    /\ split_fail' = (split_fail \/ Held(parser) > 0)
    /\ UNCHANGED << buffer_size, serial_write_lock, initial_buffer_size, serial_buf,
                    n, parser, parser_owner, p, msp_reader, rx_left, ref, bad_crc,
                    fed_since, early_decode, alive, submitted, delivered, msp_writer >>
    /\ UNCHANGED outVars /\ UNCHANGED resetVars

\* ReadError as it would be were a hard read error to end the loop
ReadError_EndsLoop ==
    /\ ipc = "read"
    /\ ipc' = "stopped"
    /\ split_fail' = (split_fail \/ Held(parser) > 0)
    /\ UNCHANGED << buffer_size, serial_write_lock, initial_buffer_size, serial_buf,
                    n, parser, parser_owner, p, msp_reader, rx_left, ref, bad_crc,
                    fed_since, early_decode, alive, submitted, delivered, msp_writer >>
    /\ UNCHANGED outVars /\ UNCHANGED resetVars

\* serial.read returns another error, which is logged
ReadError ==
    /\ ipc = "read"
    /\ ipc' = "read_error"
    /\ split_fail' = (split_fail \/ Held(parser) > 0)
    /\ UNCHANGED << buffer_size, serial_write_lock, initial_buffer_size, serial_buf,
                    n, parser, parser_owner, p, msp_reader, rx_left, ref, bad_crc,
                    fed_since, early_decode, alive, submitted, delivered, msp_writer >>
    /\ UNCHANGED outVars /\ UNCHANGED resetVars

\* NextByte as it would be were the parser locked for each byte, not for the
\* whole read
NextByte_LockPerByte ==
    IF n = Len(serial_buf)
    THEN ipc' = "yield" /\ parser_owner' = "free" /\ n' = n
    ELSE ipc' = "parse" /\ parser_owner' = "free" /\ n' = n + 1

\* end of one turn of `for n in 0..bytes`: next byte, or drop the parser
\* guard at the end of the Ok arm and go on to yield_now
NextByte ==
    IF n = Len(serial_buf)
    THEN ipc' = "yield" /\ parser_owner' = "free" /\ n' = n
    ELSE ipc' = "parse" /\ parser_owner' = "reader" /\ n' = n + 1

\* ParseByte as it would be were a checksum error to abandon the rest of the
\* bytes of the read
ParseByte_ErrorDropsRest ==
    /\ ipc = "parse"
    /\ LET res == Parse(parser, serial_buf[n])
       IN /\ parser' = res.parser
          /\ fed_since' = IF resets > 0 THEN Min(fed_since + 1, FrameLen) ELSE fed_since
          /\ split_fail' = (split_fail /\ Held(parser) > 0 /\ res.kind # "err")
          /\ CASE res.kind = "packet" ->
                    /\ p' = res.packet
                    /\ ipc' = "send"
                    /\ early_decode' = (early_decode \/ submitted < 2)
                    /\ UNCHANGED << n, parser_owner, bad_crc >>
               [] res.kind = "err" ->
                    /\ bad_crc' = bad_crc + 1
                    /\ ipc' = "yield" /\ parser_owner' = "free"
                    /\ UNCHANGED << p, n, early_decode >>
               [] res.kind = "none" ->
                    /\ NextByte
                    /\ UNCHANGED << p, bad_crc, early_decode >>
    /\ UNCHANGED << buffer_size, serial_write_lock, initial_buffer_size, serial_buf,
                    msp_reader, rx_left, ref, alive, submitted, delivered,
                    msp_writer >>
    /\ UNCHANGED outVars /\ UNCHANGED resetVars

\* ParseByte as it would be were the parser guard dropped before the send
ParseByte_UnlocksBeforeSend ==
    /\ ipc = "parse"
    /\ LET res == Parse(parser, serial_buf[n])
       IN /\ parser' = res.parser
          /\ fed_since' = IF resets > 0 THEN Min(fed_since + 1, FrameLen) ELSE fed_since
          /\ split_fail' = (split_fail /\ Held(parser) > 0 /\ res.kind # "err")
          /\ CASE res.kind = "packet" ->
                    /\ p' = res.packet
                    /\ ipc' = "send"
                    /\ early_decode' = (early_decode \/ submitted < 2)
                    /\ parser_owner' = "free"
                    /\ UNCHANGED << n, bad_crc >>
               [] res.kind = "err" ->
                    /\ bad_crc' = bad_crc + 1
                    /\ NextByte
                    /\ UNCHANGED << p, early_decode >>
               [] res.kind = "none" ->
                    /\ NextByte
                    /\ UNCHANGED << p, bad_crc, early_decode >>
    /\ UNCHANGED << buffer_size, serial_write_lock, initial_buffer_size, serial_buf,
                    msp_reader, rx_left, ref, alive, submitted, delivered,
                    msp_writer >>
    /\ UNCHANGED outVars /\ UNCHANGED resetVars

\* parser.parse(serial_buf[n]) and the match on its result
ParseByte ==
    /\ ipc = "parse"
    /\ LET res == Parse(parser, serial_buf[n])
       IN /\ parser' = res.parser
          /\ fed_since' = IF resets > 0 THEN Min(fed_since + 1, FrameLen) ELSE fed_since
          /\ split_fail' = (split_fail /\ Held(parser) > 0 /\ res.kind # "err")
          /\ CASE res.kind = "packet" ->
                    /\ p' = res.packet
                    /\ ipc' = "send"
                    /\ early_decode' = (early_decode \/ submitted < 2)
                    /\ UNCHANGED << n, parser_owner, bad_crc >>
               [] res.kind = "err" ->
                    /\ bad_crc' = bad_crc + 1
                    /\ NextByte
                    /\ UNCHANGED << p, early_decode >>
               [] res.kind = "none" ->
                    /\ NextByte
                    /\ UNCHANGED << p, bad_crc, early_decode >>
    /\ UNCHANGED << buffer_size, serial_write_lock, initial_buffer_size, serial_buf,
                    msp_reader, rx_left, ref, alive, submitted, delivered,
                    msp_writer >>
    /\ UNCHANGED outVars /\ UNCHANGED resetVars

\* SendPacket as it would be were the channel not to hold a full sender back
SendPacket_NoWait ==
    /\ ipc = "send"
    /\ msp_reader' = Append(msp_reader, p)
    /\ p' = 0
    /\ ipc' = "release"
    /\ UNCHANGED << buffer_size, serial_write_lock, initial_buffer_size, serial_buf,
                    n, parser, parser_owner, rx_left, ref, bad_crc,
                    fed_since, early_decode, split_fail, alive, submitted, delivered, msp_writer >>
    /\ UNCHANGED outVars /\ UNCHANGED resetVars

\* msp_reader_send.send(p).await: waits while the channel is full; p is moved
\* into the channel
SendPacket ==
    /\ ipc = "send"
    /\ Len(msp_reader) < ReaderCap
    /\ msp_reader' = Append(msp_reader, p)
    /\ p' = 0
    /\ ipc' = "release"
    /\ UNCHANGED << buffer_size, serial_write_lock, initial_buffer_size, serial_buf,
                    n, parser, parser_owner, rx_left, ref, bad_crc,
                    fed_since, early_decode, split_fail, alive, submitted, delivered, msp_writer >>
    /\ UNCHANGED outVars /\ UNCHANGED resetVars

\* ReleaseCredit as it would be without cvar.notify_one()
ReleaseCredit_NoNotify ==
    /\ ipc = "release"
    /\ IF serial_write_lock < initial_buffer_size
       THEN /\ serial_write_lock' = serial_write_lock + 1
            /\ opc' = opc
       ELSE UNCHANGED << serial_write_lock, opc >>
    /\ NextByte
    /\ UNCHANGED << buffer_size, initial_buffer_size, serial_buf, parser, p,
                    msp_reader, rx_left, ref, bad_crc, fed_since, early_decode, split_fail, alive,
                    submitted, delivered, msp_writer, packet, wire, hard_errs,
                    timeouts >>
    /\ UNCHANGED resetVars

\* lock the counter; below the ceiling: add one and notify_one the Condvar,
\* which makes a writer task sleeping in wait_until ready to run again
ReleaseCredit ==
    /\ ipc = "release"
    /\ IF serial_write_lock < initial_buffer_size
       THEN /\ serial_write_lock' = serial_write_lock + 1
            /\ opc' = IF opc = "wait" THEN "woken" ELSE opc
       ELSE UNCHANGED << serial_write_lock, opc >>
    /\ NextByte
    /\ UNCHANGED << buffer_size, initial_buffer_size, serial_buf, parser, p,
                    msp_reader, rx_left, ref, bad_crc, fed_since, early_decode, split_fail, alive,
                    submitted, delivered, msp_writer, packet, wire, hard_errs,
                    timeouts >>
    /\ UNCHANGED resetVars

\* task::yield_now().await, then the loop test on should_stop (never set) and
\* a fresh serial_buf for the next turn
ReaderYield ==
    /\ ipc \in {"yield", "timed_out", "read_error"}
    /\ ipc' = "read"
    /\ serial_buf' = << >>
    /\ n' = 1
    /\ split_fail' = (split_fail /\ Held(parser) > 0)
    /\ UNCHANGED << buffer_size, serial_write_lock, initial_buffer_size,
                    parser, parser_owner, p, msp_reader, rx_left, ref, bad_crc,
                    fed_since, early_decode, alive, submitted, delivered, msp_writer >>
    /\ UNCHANGED outVars /\ UNCHANGED resetVars

(***************************************************************************)
(* The writer task of process_output.                                      *)
(***************************************************************************)
\* cvar.wait_until(lock.lock().await, |send_count| ...): with the mutex held,
\* a positive counter is decremented and the task goes on; at zero the task
\* registers with the Condvar and sleeps; woken by notify_one it locks the
\* mutex and tests the counter again
AcquireCredit ==
    /\ opc \in {"acquire", "woken"}
    /\ IF serial_write_lock > 0
       THEN serial_write_lock' = serial_write_lock - 1 /\ opc' = "recv"
       ELSE serial_write_lock' = serial_write_lock /\ opc' = "wait"
    /\ UNCHANGED << buffer_size, packet, wire, hard_errs, timeouts, msp_writer,
                    msp_reader, alive, submitted, delivered >>
    /\ UNCHANGED inVars /\ UNCHANGED resetVars

\* msp_writer_recv.recv().await returns Ok(packet)
RecvPacket ==
    /\ opc = "recv"
    /\ msp_writer # << >>
    /\ packet' = Head(msp_writer)
    /\ msp_writer' = Tail(msp_writer)
    /\ timeouts' = 0
    /\ opc' = "write"
    /\ UNCHANGED << buffer_size, serial_write_lock, wire, hard_errs, msp_reader,
                    alive, submitted, delivered >>
    /\ UNCHANGED inVars /\ UNCHANGED resetVars

\* msp_writer_recv.recv().await returns Err: channel empty, every sender gone
RecvClosed ==
    /\ opc = "recv"
    /\ msp_writer = << >>
    /\ ~alive
    /\ opc' = "done"
    /\ UNCHANGED << buffer_size, serial_write_lock, packet, wire, hard_errs,
                    timeouts, msp_writer, msp_reader, alive, submitted, delivered >>
    /\ UNCHANGED inVars /\ UNCHANGED resetVars

\* serial.write(&output) returns Ok: leave the retry loop; the pacing sleep
\* and yield_now follow
WriteOk ==
    /\ opc = "write"
    /\ wire' = Append(wire, Serialize(packet))
    /\ opc' = "yield"
    /\ UNCHANGED << buffer_size, serial_write_lock, packet, hard_errs, timeouts,
                    msp_writer, msp_reader, alive, submitted, delivered >>
    /\ UNCHANGED inVars /\ UNCHANGED resetVars

\* WriteTimedOut as it would be were the timeout arm to refund the credit too
WriteTimedOut_Refunds ==
    /\ opc = "write"
    /\ timeouts' = Min(timeouts + 1, MaxTimeouts)
    /\ serial_write_lock' = serial_write_lock + 1
    /\ opc' = "retry"
    /\ UNCHANGED << buffer_size, packet, wire, hard_errs,
                    msp_writer, msp_reader, alive, submitted, delivered >>
    /\ UNCHANGED inVars /\ UNCHANGED resetVars

\* serial.write returns Err(TimedOut): yield_now, then write again
WriteTimedOut ==
    /\ opc = "write"
    /\ timeouts' = Min(timeouts + 1, MaxTimeouts)
    /\ opc' = "retry"
    /\ UNCHANGED << buffer_size, serial_write_lock, packet, wire, hard_errs,
                    msp_writer, msp_reader, alive, submitted, delivered >>
    /\ UNCHANGED inVars /\ UNCHANGED resetVars

\* the task runs again after the yield_now of the timeout arm
WriteRetry ==
    /\ opc = "retry"
    /\ opc' = "write"
    /\ UNCHANGED << buffer_size, serial_write_lock, packet, wire, hard_errs,
                    timeouts, msp_writer, msp_reader, alive, submitted, delivered >>
    /\ UNCHANGED inVars /\ UNCHANGED resetVars

\* WriteError as it would be were the failed packet given up after the refund
WriteError_DropsPacket ==
    /\ opc = "write"
    /\ hard_errs < MaxHardErrors
    /\ hard_errs' = hard_errs + 1
    /\ serial_write_lock' = serial_write_lock + 1
    /\ opc' = "yield"
    /\ UNCHANGED << buffer_size, packet, wire, timeouts, msp_writer, msp_reader,
                    alive, submitted, delivered >>
    /\ UNCHANGED inVars /\ UNCHANGED resetVars

\* serial.write returns another error: *(lock.lock().await) += 1, log, and
\* write the same buffer again
WriteError ==
    /\ opc = "write"
    /\ hard_errs < MaxHardErrors
    /\ hard_errs' = hard_errs + 1
    /\ serial_write_lock' = serial_write_lock + 1
    /\ opc' = "write"
    /\ UNCHANGED << buffer_size, packet, wire, timeouts, msp_writer, msp_reader,
                    alive, submitted, delivered >>
    /\ UNCHANGED inVars /\ UNCHANGED resetVars

\* task::sleep(write_delay) when set, task::yield_now(), next turn of the
\* loop: the packet and its buffer are dropped
WriterYield ==
    /\ opc = "yield"
    /\ opc' = "acquire"
    /\ packet' = 0
    /\ timeouts' = 0
    /\ UNCHANGED << buffer_size, serial_write_lock, wire, hard_errs,
                    msp_writer, msp_reader, alive, submitted, delivered >>
    /\ UNCHANGED inVars /\ UNCHANGED resetVars

(***************************************************************************)
(* The callers.                                                            *)
(***************************************************************************)
\* Core::write: msp_writer_send.send(packet).await, waits while full
Write ==
    /\ alive
    /\ submitted < MaxFrames
    /\ Len(msp_writer) < WriterCap
    /\ submitted' = submitted + 1
    /\ msp_writer' = Append(msp_writer, submitted + 1)
    /\ UNCHANGED << buffer_size, serial_write_lock, msp_reader, alive, delivered >>
    /\ UNCHANGED inVars /\ UNCHANGED outVars /\ UNCHANGED resetVars

\* what read() returns for recv's Err: None
NoValue == 0 - 1

\* senders of the msp_reader channel: the msp_reader_send of the Core handles
\* and the clone that start() moved into the reader task, which lives as long
\* as the task
ReaderSenders ==
    (IF alive THEN 1 ELSE 0) + (IF ipc # "stopped" THEN 1 ELSE 0)

\* Read as it would be were an empty channel to give None at once
Read_NoneWhenEmpty ==
    /\ alive
    /\ IF msp_reader # << >>
       THEN /\ delivered' = Append(delivered, Head(msp_reader))
            /\ msp_reader' = Tail(msp_reader)
       ELSE /\ delivered' = Append(delivered, NoValue)
            /\ msp_reader' = msp_reader
    /\ UNCHANGED << buffer_size, serial_write_lock, msp_writer, alive, submitted >>
    /\ UNCHANGED inVars /\ UNCHANGED outVars /\ UNCHANGED resetVars

\* Core::read: msp_reader_recv.recv().await returns the packet at the head
\* of the channel, waits while the channel is empty and has a sender, and
\* returns Err, which read() turns into None, once it is empty with no sender
Read ==
    /\ alive
    /\ IF msp_reader # << >>
       THEN /\ delivered' = Append(delivered, Head(msp_reader))
            /\ msp_reader' = Tail(msp_reader)
       ELSE /\ ReaderSenders = 0
            /\ delivered' = Append(delivered, NoValue)
            /\ msp_reader' = msp_reader
    /\ UNCHANGED << buffer_size, serial_write_lock, msp_writer, alive, submitted >>
    /\ UNCHANGED inVars /\ UNCHANGED outVars /\ UNCHANGED resetVars

\* ResetParser as it would be were the partial frame kept
ResetParser_KeepsPartial ==
    /\ alive
    /\ parser_owner = "free"
    /\ resets < MaxResets
    /\ parser' = parser
    /\ resets' = resets + 1
    /\ reset_dropped' = parser
    /\ ref' = [ref EXCEPT !.parser = NewParser]
    /\ fed_since' = 0
    /\ split_fail' = FALSE
    /\ UNCHANGED << buffer_size, serial_write_lock, ipc, initial_buffer_size,
                    serial_buf, n, parser_owner, p, msp_reader, rx_left,
                    bad_crc, early_decode, msp_writer, alive, submitted, delivered >>
    /\ UNCHANGED outVars

\* Core::reset_parser: take the parser lock, parser.reset(), drop the lock
ResetParser ==
    /\ alive
    /\ parser_owner = "free"
    /\ resets < MaxResets
    /\ parser' = NewParser
    /\ resets' = resets + 1
    /\ reset_dropped' = parser
    /\ ref' = [ref EXCEPT !.parser = NewParser]
    /\ fed_since' = 0
    /\ split_fail' = FALSE
    /\ UNCHANGED << buffer_size, serial_write_lock, ipc, initial_buffer_size,
                    serial_buf, n, parser_owner, p, msp_reader, rx_left,
                    bad_crc, early_decode, msp_writer, alive, submitted, delivered >>
    /\ UNCHANGED outVars

\* the last Core handle is dropped: the msp_writer channel loses its senders
DropCore ==
    /\ alive
    /\ alive' = FALSE
    /\ UNCHANGED << buffer_size, serial_write_lock, msp_reader, msp_writer,
                    submitted, delivered >>
    /\ UNCHANGED inVars /\ UNCHANGED outVars /\ UNCHANGED resetVars

(***************************************************************************)
(* Two specifications.  Spec is the flow control: both tasks with write,   *)
(* read and the drop of the handles; reset_parser, which touches the       *)
(* parser alone, is left to SpecCodec.  SpecCodec is the decoding: the     *)
(* reader task on a longer byte stream with read and reset_parser; no      *)
(* packet is submitted, so the writer task takes its first credit and then *)
(* waits in recv.                                                          *)
(***************************************************************************)
ReaderNext ==
    \/ ReaderStart
    \/ \E chunk \in ByteSeqs(MaxChunk) : ReadOk(chunk)
    \/ ReadTimedOut
    \/ ReadError
    \/ ParseByte
    \/ SendPacket
    \/ ReleaseCredit
    \/ ReaderYield

WriterNext ==
    \/ AcquireCredit
    \/ RecvPacket
    \/ RecvClosed
    \/ WriteOk
    \/ WriteTimedOut
    \/ WriteRetry
    \/ WriteError
    \/ WriterYield

Next == ReaderNext \/ WriterNext \/ Write \/ Read \/ DropCore

Spec == Init /\ [][Next]_vars

InitCodec == InitCore(MaxCodecBytes)

NextCodec == ReaderNext \/ AcquireCredit \/ Read \/ ResetParser

SpecCodec == InitCodec /\ [][NextCodec]_vars

(***************************************************************************)
(* Quantities the properties speak of.                                     *)
(***************************************************************************)
\* inbound packets the reader task has decoded so far
Decoded == Len(delivered) + Len(msp_reader) + (IF ipc = "send" THEN 1 ELSE 0)

\* the reader task ends its turn at the counter (lines 100-105)
ReleaseStep == ipc = "release" /\ ipc' # "release"

IsPrefix(a, b) == Len(a) <= Len(b) /\ SubSeq(b, 1, Len(a)) = a

(***************************************************************************)
(* Flow credit (Spec).                                                     *)
(***************************************************************************)
\* C1: in every reachable state the send-credit counter is within
\* [0, buffer_size].
C1_CreditWithinBufferSize == serial_write_lock \in 0 .. buffer_size

\* C2: the number of packets written to the transport is at most buffer_size
\* plus the number of inbound packets decoded so far.
C2_WrittenWithinCredit == Len(wire) <= buffer_size + Decoded

\* C3: with buffer_size = 1 and F1, F2 submitted before any inbound packet
\* was decoded, F1 written and F2 held back for want of credit, the reader
\* task's release for a decoded and enqueued inbound packet makes the credit
\* available and lets the writer task go on to F2, whatever the order in
\* which the two tasks started.
C3_DecodeUnblocksSecondFrame ==
    [][ ( /\ buffer_size = 1
          /\ submitted = 2
          /\ Len(wire) = 1
          /\ hard_errs = 0
          /\ ~early_decode
          /\ opc \in {"acquire", "wait", "yield"}
          /\ serial_write_lock = 0
          /\ ReleaseStep )
        => (serial_write_lock' = 1 /\ opc' # "wait") ]_vars

\* C10: every completed inbound decode, once its packet is enqueued, adds
\* exactly one to the counter when it is below buffer_size and leaves it
\* alone when it equals buffer_size.
C10_ReleaseCeilingIsBufferSize ==
    [][ ReleaseStep =>
          serial_write_lock' = IF serial_write_lock < buffer_size
                               THEN serial_write_lock + 1
                               ELSE serial_write_lock ]_vars

(***************************************************************************)
(* Order of the outbound packets (Spec).                                   *)
(***************************************************************************)
\* packets the writer task holds between recv and the successful write
InHand == IF opc \in {"write", "retry"} THEN 1 ELSE 0

\* C4: the buffers on the wire are the serialized packets 1, 2, ... in
\* submission order, each once; the packet being written is the next one and
\* the channel holds the ones after it: none is skipped or overtaken.
C4_WrittenInSubmissionOrder ==
    /\ Len(wire) <= submitted
    /\ \A i \in 1 .. Len(wire) : wire[i] = Serialize(i)
    /\ InHand = 1 => packet = Len(wire) + 1
    /\ Len(wire) + InHand + Len(msp_writer) = submitted
    /\ \A i \in 1 .. Len(msp_writer) : msp_writer[i] = Len(wire) + InHand + i

\* both packets written in order although writes timed out and failed
C4_Witness ==
    /\ wire = << Serialize(1), Serialize(2) >>
    /\ hard_errs > 0
    /\ timeouts > 0

(***************************************************************************)
(* Write timeouts and the errors of both tasks (Spec).                     *)
(***************************************************************************)
\* C6: a write that times out and is tried again leaves the counter and the
\* wire as they are, the write that then succeeds puts the one buffer of the
\* packet on the wire and leaves the counter as it is, and no buffer is on
\* the wire twice.
C6_TimeoutsCostNoCredit ==
    /\ [][ /\ (opc = "write" /\ opc' = "retry")
                => UNCHANGED << serial_write_lock, wire, packet, msp_writer >>
           /\ (opc = "retry" /\ opc' = "write")
                => UNCHANGED << serial_write_lock, wire, packet, msp_writer >>
           /\ (opc = "write" /\ opc' = "yield")
                => /\ wire' = Append(wire, Serialize(packet))
                   /\ UNCHANGED << serial_write_lock, msp_writer >> ]_vars
    /\ [](\A i, j \in 1 .. Len(wire) : wire[i] = wire[j] => i = j)

\* F1 is on the wire once after its write timed out MaxTimeouts times or
\* more, and the counter shows the one credit F1 took
C6_Witness ==
    /\ opc = "yield"
    /\ timeouts = MaxTimeouts
    /\ hard_errs = 0
    /\ Decoded = 0
    /\ wire = << Serialize(packet) >>
    /\ buffer_size > 0
    /\ serial_write_lock = buffer_size - 1

\* where the reader task can stand while its loop runs
ReaderLoop ==
    {"start", "read", "parse", "send", "release", "yield", "timed_out", "read_error"}

\* C7: the reader task never leaves its loop; after a read timeout or a hard
\* read error it reads again, after a checksum error it goes on with the
\* bytes of the read; the writer task writes the same packet again after a
\* write timeout or a hard write error, and leaves its loop only from recv
\* with the channel empty and every sender gone.
C7_NoErrorEndsAPipeline ==
    [][ /\ ipc' \in ReaderLoop
        /\ (ipc \in {"timed_out", "read_error"} /\ ipc' # ipc) => ipc' = "read"
        /\ bad_crc' # bad_crc =>
              ipc' = IF n < Len(serial_buf) THEN "parse" ELSE "yield"
        /\ (opc = "retry" /\ opc' # opc) => (opc' = "write" /\ packet' = packet)
        /\ hard_errs' # hard_errs => (opc' = "write" /\ packet' = packet)
        /\ (opc' = "done" /\ opc # "done")
              => (opc = "recv" /\ ~alive /\ msp_writer = << >>) ]_vars

\* after a checksum error the reader task is back at serial.read, and after a
\* hard error and a timeout of its write the writer task has written F1 and
\* goes on to the next turn of its loop
C7_Witness ==
    /\ bad_crc > 0
    /\ ipc = "read"
    /\ hard_errs > 0
    /\ timeouts > 0
    /\ wire = << Serialize(1) >>
    /\ opc = "yield"

(***************************************************************************)
(* Decoding (SpecCodec).                                                   *)
(***************************************************************************)
\* packets the reader task has handed on or is about to, in order
Produced == delivered \o msp_reader \o (IF ipc = "send" THEN << p >> ELSE << >>)

\* C5: the packets read() returned are a prefix of the packets the codec
\* decodes from all bytes read so far, in the same order, however the bytes
\* were split into reads; and once the reader task has parsed all it read,
\* every packet of that decoding has been handed on.
C5_DeliveredInDecodeOrder ==
    /\ IsPrefix(delivered, ref.frames)
    /\ IsPrefix(Produced, ref.frames)
    /\ parser_owner = "free" => (Produced = ref.frames /\ parser = ref.parser)

\* two packets were returned by read(), the second one completed by the
\* latest read, which was of a single byte
C5_Witness ==
    /\ Len(delivered) = 2
    /\ ipc \in {"release", "yield"}
    /\ Len(serial_buf) = 1
    /\ rx_left = MaxCodecBytes - 2 * FrameLen

\* C8: the step that logs a checksum error enqueues nothing, leaves the
\* counter alone and goes on with the next byte of the same read; once all
\* bytes read are parsed, the errors logged are the errors of the codec and
\* the packets handed on are all the packets of the codec, the ones that
\* follow a checksum error among them.
C8_ChecksumErrorLosesNoPacket ==
    /\ [][ bad_crc' # bad_crc =>
              /\ bad_crc' = bad_crc + 1
              /\ UNCHANGED << msp_reader, serial_write_lock, serial_buf, p >>
              /\ n < Len(serial_buf) => (ipc' = "parse" /\ n' = n + 1) ]_vars
    /\ []( bad_crc <= ref.errs
           /\ ((parser_owner = "free" /\ ref.errs > 0)
                  => (bad_crc = ref.errs /\ Produced = ref.frames)) )

\* the first three bytes gave one checksum error, the three bytes that follow
\* gave a packet, which read() has returned
C8_Witness ==
    /\ bad_crc = 1
    /\ ipc = "release"
    /\ rx_left = MaxCodecBytes - 2 * FrameLen
    /\ msp_reader = << >>
    /\ Len(delivered) = 1

\* C9: after a reset that dropped a partial frame, no packet is decoded or
\* enqueued while only the bytes that would have completed that frame are
\* fed.
C9_ResetDropsPartialFrame ==
    (resets > 0 /\ Held(reset_dropped) > 0 /\ ipc \in {"send", "release"})
        => fed_since > FrameLen - Held(reset_dropped)

\* the reset dropped a frame short of its checksum, the one byte read and
\* parsed since is that checksum, and nothing was enqueued
C9_Witness ==
    /\ resets = 1
    /\ reset_dropped.state = "Crc"
    /\ fed_since = 1
    /\ ipc = "yield"
    /\ serial_buf = << Crc8(reset_dropped.id) >>
    /\ Produced = << >>
    /\ ref.frames = << >>

(***************************************************************************)
(* Wake-up of the writer task (SpecWake).                                  *)
(***************************************************************************)
\* The two tasks and write() while the handles live: read() and the drop of
\* the handles touch neither the counter nor the Condvar.  The executor runs
\* a task that is ready, so the writer task at wait_until, which no other
\* task can disable, takes its step: weak fairness of AcquireCredit.
NextWake ==
    \/ ReaderNext
    \/ AcquireCredit \/ RecvPacket \/ WriteOk \/ WriteTimedOut \/ WriteRetry
    \/ WriteError \/ WriterYield
    \/ Write
SpecWake == Init /\ [][NextWake]_vars /\ WF_vars(AcquireCredit)

\* C11: the writer task never sleeps in wait_until with a positive counter,
\* and whenever the counter is positive while the writer task is in
\* wait_until (about to test, asleep or woken) it goes on to take a credit
\* and reaches recv.
C11_NoLostWakeup ==
    /\ [](opc = "wait" => serial_write_lock = 0)
    /\ (opc \in {"acquire", "wait", "woken"} /\ serial_write_lock > 0)
          ~> (opc = "recv")

\* the writer task slept at zero after F1, a decode released a credit and
\* notified it: it is ready to run with the counter positive
C11_Witness ==
    /\ opc = "woken"
    /\ serial_write_lock = 1
    /\ Len(wire) = 1
    /\ hard_errs = 0

(***************************************************************************)
(* Back-pressure of the msp_reader channel (SpecCodec).                    *)
(***************************************************************************)
\* C12: the reader task comes to the release of a credit only from the send
\* of the decoded packet, with room in the channel and the packet appended;
\* the counter grows in no other step; and while the reader task is in send
\* with the channel full and nothing is taken from the channel, it stays in
\* send and the counter does not grow.
C12_ReleaseAfterEnqueue ==
    [][ /\ (ipc' = "release" /\ ipc # "release")
              => /\ ipc = "send"
                 /\ Len(msp_reader) < ReaderCap
                 /\ msp_reader' = Append(msp_reader, p)
        /\ serial_write_lock' > serial_write_lock => ReleaseStep
        /\ (ipc = "send" /\ Len(msp_reader) >= ReaderCap /\ msp_reader' = msp_reader)
              => (ipc' = "send" /\ serial_write_lock' <= serial_write_lock) ]_vars

\* a second packet is decoded while the first is still in the full channel:
\* the reader task is in send and the credit it owes is not released
C12_Witness ==
    /\ ipc = "send"
    /\ Len(msp_reader) = ReaderCap
    /\ delivered = << >>
    /\ serial_write_lock < initial_buffer_size

(***************************************************************************)
(* End of the writer task (Spec).                                          *)
(***************************************************************************)
\* C13: the writer task is done only when every sender of the msp_writer
\* channel is gone; and once the senders are gone and the channel is empty,
\* the writer task, whatever the counter, has a step of its own to take
\* until it is done: its end waits for nothing but itself.  (Stated for a
\* reader task that read buffer_size as its ceiling, and buffer_size > 0.)
C13_ClosedWriterTerminates ==
    /\ opc = "done" => ~alive
    /\ ( /\ buffer_size > 0
          /\ initial_buffer_size = buffer_size
          /\ ~alive
          /\ msp_writer = << >>
          /\ opc # "done" )
          => ENABLED WriterNext

(***************************************************************************)
(* The parser lock (SpecCodec).                                            *)
(***************************************************************************)
\* C14: reset_parser takes effect only while the reader task is outside the
\* bytes of a read, never between two bytes of one read; the parser changes
\* only in a step of the reader task that holds its lock or in the reset,
\* which then holds it alone; and the reader task holds the lock all the
\* way from the first byte of a read to the last, its sends and releases
\* included.
C14_ParserUnderLock ==
    /\ [][ /\ resets' # resets
              => (parser_owner = "free" /\ ipc \notin {"parse", "send", "release"})
           /\ parser' # parser
              => \/ (ipc = "parse" /\ parser_owner = "reader" /\ resets' = resets)
                 \/ (resets' # resets /\ parser_owner = "free") ]_vars
    /\ [](parser_owner = "reader" <=> ipc \in {"parse", "send", "release"})

\* the reset dropped a partial frame between two reads; the reader task has
\* since read two bytes and holds the lock to feed them
C14_Witness ==
    /\ resets = 1
    /\ Held(reset_dropped) > 0
    /\ fed_since = 0
    /\ ipc = "parse"
    /\ parser_owner = "reader"
    /\ Len(serial_buf) = 2
    /\ n = 1

(***************************************************************************)
(* Failed reads between the bytes of a frame (Spec).                       *)
(***************************************************************************)
\* C15: the step in which serial.read times out or fails, and the step that
\* takes the reader task from there to its next read, leave the parser, the
\* msp_reader channel and the counter as they are; so whenever the reader
\* task has parsed all it read, the parser and the packets handed on are
\* those of the codec run on the bytes read alone, wherever the failed
\* reads fell, and read() returns them in that order.
C15_FailedReadsChangeNothing ==
    /\ [][ /\ (ipc = "read" /\ ipc' \in {"timed_out", "read_error"})
              => UNCHANGED << parser, parser_owner, msp_reader, serial_write_lock,
                              bad_crc >>
           /\ (ipc \in {"timed_out", "read_error"} /\ ipc' # ipc)
              => /\ ipc' = "read"
                 /\ UNCHANGED << parser, parser_owner, msp_reader,
                                 serial_write_lock, bad_crc >> ]_vars
    /\ []( /\ IsPrefix(delivered, ref.frames)
           /\ parser_owner = "free"
                 => (Produced = ref.frames /\ parser = ref.parser) )

\* reads timed out or failed between the bytes of a frame; its last byte
\* then came in a read of its own and read() has returned the packet
C15_Witness ==
    /\ split_fail
    /\ ipc = "yield"
    /\ Len(serial_buf) = 1
    /\ Len(delivered) = 1
    /\ delivered = ref.frames
    /\ bad_crc = 0

(***************************************************************************)
(* The parser lock across the send (SpecCodec).                            *)
(***************************************************************************)
\* C16: the reader task holds the parser lock while it is in send and while
\* it releases the credit; and while it is in send with the channel full
\* and nothing is taken from the channel, it stays there with the lock, and
\* no reset_parser completes: the parser and the count of resets stay as
\* they are, for as long as no read() takes a packet.
C16_ResetWaitsForRead ==
    /\ [](ipc \in {"send", "release"} => parser_owner = "reader")
    /\ [][ (ipc = "send" /\ Len(msp_reader) >= ReaderCap /\ msp_reader' = msp_reader)
              => /\ ipc' = "send"
                 /\ parser_owner' = "reader"
                 /\ resets' = resets
                 /\ parser' = parser ]_vars

\* the reader task is in send on the full channel with the lock; a handle
\* lives and no reset was made yet, and reset_parser cannot complete
C16_Witness ==
    /\ ipc = "send"
    /\ Len(msp_reader) = ReaderCap
    /\ parser_owner = "reader"
    /\ alive
    /\ resets = 0
    /\ ~ ENABLED ResetParser

(***************************************************************************)
(* End of stream on read() (Spec).                                         *)
(***************************************************************************)
\* C17: read() has never returned None: a call is made through a handle,
\* which holds a sender of the msp_reader channel, and the reader task,
\* which never leaves its loop, holds another, so the channel always has a
\* sender and is never closed.
C17_ReadNeverReturnsNone ==
    /\ \A i \in 1 .. Len(delivered) : delivered[i] # NoValue
    /\ ReaderSenders >= 1
    /\ alive => ReaderSenders = 2

\* read() returned the one packet the link had to give; a handle lives, the
\* channel is empty and the link has no more bytes: a further read() has no
\* step to take, it waits
C17_Witness ==
    /\ alive
    /\ msp_reader = << >>
    /\ Len(delivered) = 1
    /\ rx_left = 0
    /\ ipc = "read"
    /\ ~ ENABLED Read

====
